---------------------------- MODULE Spec2Model ----------------------------
(***************************************************************************)
(* The extension registry and the grammar composer of the choreography     *)
(* crate (extensions.rs, compiler/grammar.rs).                             *)
(*                                                                         *)
(* Grammar text is a sequence of one-character strings, so that the string *)
(* operations the composer relies on (lines, trim, contains, find,         *)
(* ends_with, split) are computed on the characters as the code computes   *)
(* them.  A HashMap is a function together with the order in which its     *)
(* entries are iterated.  The state is one GrammarComposer with the         *)
(* ExtensionRegistry it owns; the registry's own operations (register_parser,*)
(* find_parser, compose_grammar) act on that same registry.                *)
(*                                                                         *)
(* Spec is that composer under its operations.  BaseSpec is compose over   *)
(* several base grammar texts.  ProjectionSpec is validation and           *)
(* projection of a choreography for one role.                              *)
(***************************************************************************)
EXTENDS Naturals, Sequences, FiniteSets

VARIABLES
    base_grammar,        \* GrammarComposer.base_grammar
    grammar_extensions,  \* ExtensionRegistry.grammar_extensions : id -> extension
    iter_order,          \* the order in which grammar_extensions.values() iterates
    statement_parsers,   \* ExtensionRegistry.statement_parsers : parser id -> parser
    rule_to_parser,      \* ExtensionRegistry.rule_to_parser : rule name -> extension id
    builder,             \* TRUE while the composer is still inside a GrammarComposerBuilder
    registered,          \* history: extension ids in the order of their first registration
    ret                  \* the last call made and what it returned

vars == <<base_grammar, grammar_extensions, iter_order, statement_parsers,
          rule_to_parser, builder, registered, ret>>

----------------------------------------------------------------------------
(* Strings: the operations of str that the code uses.                      *)

Range(s) == {s[i] : i \in 1..Len(s)}

IsWhitespace(c) == c \in {" ", "\n", "\t"}

RECURSIVE TrimStart(_)
TrimStart(s) ==
    IF s # <<>> /\ IsWhitespace(Head(s)) THEN TrimStart(Tail(s)) ELSE s

RECURSIVE TrimEnd(_)
TrimEnd(s) ==
    IF s # <<>> /\ IsWhitespace(s[Len(s)]) THEN TrimEnd(SubSeq(s, 1, Len(s) - 1)) ELSE s

\* str::trim
Trim(s) == TrimEnd(TrimStart(s))

\* str::starts_with
StartsWith(s, p) == Len(p) <= Len(s) /\ SubSeq(s, 1, Len(p)) = p

\* str::ends_with
EndsWith(s, p) == Len(p) <= Len(s) /\ SubSeq(s, Len(s) - Len(p) + 1, Len(s)) = p

Min(S) == CHOOSE i \in S : \A j \in S : i <= j

\* str::find: the position (from 1) of the first occurrence of p in s, 0 for None
MatchesAt(s, p, i) == \A k \in 1..Len(p) : s[i + k - 1] = p[k]

Find(s, p) ==
    IF Len(p) > Len(s) THEN 0
    ELSE LET hits == {i \in 1..(Len(s) - Len(p) + 1) : MatchesAt(s, p, i)}
         IN  IF hits = {} THEN 0 ELSE Min(hits)

\* str::contains
Contains(s, p) == Find(s, p) # 0

\* str::split(p).next(): the text before the first occurrence of p (all of s if none)
SplitFirst(s, p) ==
    LET k == Find(s, p) IN IF k = 0 THEN s ELSE SubSeq(s, 1, k - 1)

\* str::lines: split at "\n"; a final newline does not start another line
\* (no text here holds a carriage return, which lines would strip as well)
Lines(s) ==
    LET newlines == {i \in 1..Len(s) : s[i] = "\n"}
        starts == {1} \cup {i + 1 : i \in newlines}
        first(k) == CHOOSE a \in starts : Cardinality({b \in starts : b < a}) = k - 1
        last(a) == CHOOSE e \in newlines \cup {Len(s) + 1} :
                       e >= a /\ \A i \in newlines : i >= a => e <= i
        count == Cardinality({a \in starts : a <= Len(s)})
    IN  [k \in 1..count |-> SubSeq(s, first(k), last(first(k)) - 1)]

\* [String]::join
RECURSIVE Join(_, _)
Join(parts, sep) ==
    IF parts = <<>> THEN <<>>
    ELSE IF Len(parts) = 1 THEN parts[1]
    ELSE parts[1] \o sep \o Join(Tail(parts), sep)

\* chars().filter(|c| c == ch).count()
CountChar(s, ch) == Cardinality({i \in 1..Len(s) : s[i] = ch})

----------------------------------------------------------------------------
(* The texts of the model: rule names, rule texts, the base grammar and    *)
(* the literals the composer searches for.                                 *)

\* the rule name "timeout_stmt"
TimeoutStmt ==
    <<"t","i","m","e","o","u","t","_","s","t","m","t">>

\* the rule name "x_stmt"
XStmt ==
    <<"x","_","s","t","m","t">>

\* the rule name "z_stmt"
ZStmt ==
    <<"z","_","s","t","m","t">>

\* the rule name "send_stmt"
SendStmt ==
    <<"s","e","n","d","_","s","t","m","t">>

\* the rule name "unknown_rule"
UnknownRule ==
    <<"u","n","k","n","o","w","n","_","r","u","l","e">>

\* timeout_stmt = { "timeout" ~ integer ~ "{" ~ protocol_body ~ "}" }
TestExtensionRules ==
    <<"t","i","m","e","o","u","t","_","s","t","m","t"," ","="," ","{"," ","\"","t","i","m","e",
      "o","u","t","\""," ","~"," ","i","n","t","e","g","e","r"," ","~"," ","\"","{","\""," ",
      "~"," ","p","r","o","t","o","c","o","l","_","b","o","d","y"," ","~"," ","\"","}","\""," ",
      "}">>

\* timeout_stmt = { "timeout" ~ integer ~ protocol_block }
MockGrammarExtensionRules ==
    <<"t","i","m","e","o","u","t","_","s","t","m","t"," ","="," ","{"," ","\"","t","i","m","e",
      "o","u","t","\""," ","~"," ","i","n","t","e","g","e","r"," ","~"," ","p","r","o","t","o",
      "c","o","l","_","b","l","o","c","k"," ","}">>

\* x_stmt = {  /  "x"  /  }   (a rule written over three lines)
XBlockRules ==
    <<"x","_","s","t","m","t"," ","="," ","{","\n"," ","\"","x","\"","\n","}">>

\* z_stmt = {  /  "z"  /  }   (a rule written over three lines)
ZBlockRules ==
    <<"z","_","s","t","m","t"," ","="," ","{","\n"," ","\"","z","\"","\n","}">>

\* x_stmt = @{ "x" }   (an atomic rule)
XAtomicRules ==
    <<"x","_","s","t","m","t"," ","="," ","@","{"," ","\"","x","\""," ","}">>

\* choreography.pest, the rules the composer looks for:
\*   choreography = { annotated_stmt* }
\*   annotated_stmt = { annotation* ~ (send_stmt | broadcast_stmt) }
\*   send_stmt = { "->" }
\*   ident = @{ "i" }
BaseGrammar ==
    <<"c","h","o","r","e","o","g","r","a","p","h","y"," ","="," ","{"," ","a","n","n","o","t",
      "a","t","e","d","_","s","t","m","t","*"," ","}","\n","a","n","n","o","t","a","t","e","d",
      "_","s","t","m","t"," ","="," ","{"," ","a","n","n","o","t","a","t","i","o","n","*"," ",
      "~"," ","(","s","e","n","d","_","s","t","m","t"," ","|"," ","b","r","o","a","d","c","a",
      "s","t","_","s","t","m","t",")"," ","}","\n","s","e","n","d","_","s","t","m","t"," ","=",
      " ","{"," ","\"","-",">","\""," ","}","\n","i","d","e","n","t"," ","="," ","@","{"," ",
      "\"","i","\""," ","}","\n">>

\* a base grammar whose alternation names broadcast_stmt first:
\*   annotated_stmt = { annotation* ~ (broadcast_stmt | send_stmt) }
\*   send_stmt = { "->" }
SwappedBaseGrammar ==
    <<"a","n","n","o","t","a","t","e","d","_","s","t","m","t"," ","="," ","{"," ","a","n","n",
      "o","t","a","t","i","o","n","*"," ","~"," ","(","b","r","o","a","d","c","a","s","t","_",
      "s","t","m","t"," ","|"," ","s","e","n","d","_","s","t","m","t",")"," ","}","\n","s","e",
      "n","d","_","s","t","m","t"," ","="," ","{"," ","\"","-",">","\""," ","}","\n">>

\* a base grammar without an annotated_stmt rule:
\*   choreography = { send_stmt* }
\*   send_stmt = { "->" }
NoPointBaseGrammar ==
    <<"c","h","o","r","e","o","g","r","a","p","h","y"," ","="," ","{"," ","s","e","n","d","_",
      "s","t","m","t","*"," ","}","\n","s","e","n","d","_","s","t","m","t"," ","="," ","{"," ",
      "\"","-",">","\""," ","}","\n">>

\* a base grammar with the extension point whose last rule is not closed:
\*   annotated_stmt = { annotation* ~ (send_stmt | broadcast_stmt) }
\*   send_stmt = { "->"
UnclosedBaseGrammar ==
    <<"a","n","n","o","t","a","t","e","d","_","s","t","m","t"," ","="," ","{"," ","a","n","n",
      "o","t","a","t","i","o","n","*"," ","~"," ","(","s","e","n","d","_","s","t","m","t"," ",
      "|"," ","b","r","o","a","d","c","a","s","t","_","s","t","m","t",")"," ","}","\n","s","e",
      "n","d","_","s","t","m","t"," ","="," ","{"," ","\"","-",">","\"","\n">>

\* brace_stmt = { "{" }
BraceRules ==
    <<"b","r","a","c","e","_","s","t","m","t"," ","="," ","{"," ","\"","{","\""," ","}">>

\* open_stmt = { "o"
UnclosedRules ==
    <<"o","p","e","n","_","s","t","m","t"," ","="," ","{"," ","\"","o","\"">>

\* "brace_stmt"
BraceStmt ==
    <<"b","r","a","c","e","_","s","t","m","t">>

\* "open_stmt"
OpenStmt ==
    <<"o","p","e","n","_","s","t","m","t">>

\* basic_rule = { "test" }
BasicRule ==
    <<"b","a","s","i","c","_","r","u","l","e"," ","="," ","{"," ","\"","t","e","s","t","\""," ",
      "}">>

\* "annotated_stmt = {"
AnnotatedStmtHead ==
    <<"a","n","n","o","t","a","t","e","d","_","s","t","m","t"," ","="," ","{">>

\* "annotation* ~"
AnnotationTilde ==
    <<"a","n","n","o","t","a","t","i","o","n","*"," ","~">>

\* "broadcast_stmt"
BroadcastStmt ==
    <<"b","r","o","a","d","c","a","s","t","_","s","t","m","t">>

\* "annotation* ~ (send_stmt | broadcast_stmt"
AlternativesHead ==
    <<"a","n","n","o","t","a","t","i","o","n","*"," ","~"," ","(","s","e","n","d","_","s","t",
      "m","t"," ","|"," ","b","r","o","a","d","c","a","s","t","_","s","t","m","t">>

\* "_stmt = {"
StmtRuleTail ==
    <<"_","s","t","m","t"," ","="," ","{">>

\* " = {"
RuleMark ==
    <<" ","="," ","{">>

\* "// Extension Rules\n"
ExtensionRulesMarker ==
    <<"/","/"," ","E","x","t","e","n","s","i","o","n"," ","R","u","l","e","s","\n">>

----------------------------------------------------------------------------
(* Grammar extensions: what extension_id(), priority(), statement_rules()  *)
(* and grammar_rules() of an implementation of GrammarExtension return.    *)

\* GrammarExtension::priority, when an implementation does not override it
DefaultPriority == 100

Extension(id, prio, rules, text) ==
    [extension_id |-> id, priority |-> prio, statement_rules |-> rules,
     grammar_rules |-> text]

\* grammar.rs, tests::TestExtension
TestExtension ==
    Extension("test_timeout", DefaultPriority, <<TimeoutStmt>>, TestExtensionRules)

\* extensions.rs, tests::MockGrammarExtension
MockGrammarExtension ==
    Extension("mock_timeout", DefaultPriority, <<TimeoutStmt>>, MockGrammarExtensionRules)

\* a high-priority extension whose rule opens a block on its first line
XBlockExtension == Extension("x_ext", 200, <<XStmt>>, XBlockRules)

\* another extension under the same id, with another statement rule
ZBlockExtension == Extension("x_ext", 200, <<ZStmt>>, ZBlockRules)

\* an extension that defines x_stmt as an atomic rule
XAtomicExtension == Extension("x_atomic", DefaultPriority, <<XStmt>>, XAtomicRules)

\* an extension that lists no statement rule and brings no rule text
BlankExtension == Extension("blank", DefaultPriority, <<>>, <<>>)

\* an extension whose rule matches an opening brace: one brace of the grammar
\* opens, one closes, and one stands inside a string literal
BraceExtension == Extension("brace", DefaultPriority, <<BraceStmt>>, BraceRules)

\* an extension whose rule is never closed
UnclosedExtension == Extension("unclosed", DefaultPriority, <<OpenStmt>>, UnclosedRules)

Extensions ==
    {TestExtension, MockGrammarExtension, XBlockExtension, ZBlockExtension,
     XAtomicExtension, BlankExtension}

ExtensionIds == {e.extension_id : e \in Extensions}

\* the extensions handed over as &dyn GrammarExtension
TraitExtensions == {TestExtension, XBlockExtension}

\* the rule names asked about
RuleNames == {TimeoutStmt, XStmt, UnknownRule}

\* statement parsers and the ids they are registered under
Parsers == {"x_parser"}
ParserIds == {"x_ext"}

\* the grammar texts compose is tried on as the composer's base grammar
BaseGrammars ==
    {BaseGrammar, SwappedBaseGrammar, NoPointBaseGrammar, UnclosedBaseGrammar}

\* the extensions registered with those composers
ComposedExtensions ==
    {TestExtension, MockGrammarExtension, BlankExtension, BraceExtension,
     UnclosedExtension}

\* the base_grammar arguments compose_grammar is called with
BaseArguments == {BasicRule}

\* at most this many extensions are registered at a time
MaxExtensions == 2

----------------------------------------------------------------------------
(* HashMap                                                                 *)

\* HashMap::insert
\* an entry that is already there is kept, and the new value dropped
InsertIfAbsent(map, key, value) ==
    [k \in DOMAIN map \cup {key} |-> IF k \in DOMAIN map THEN map[k] ELSE value]

Insert(map, key, value) ==
    [k \in DOMAIN map \cup {key} |-> IF k = key THEN value ELSE map[k]]

\* the orders in which a map may iterate once `key` is inserted: an entry that
\* is already there keeps its bucket, a new entry may land anywhere among them
\* (a table of up to three entries does not grow, so none is moved)
OrdersAfterInsert(order, key) ==
    IF key \in Range(order) THEN {order}
    ELSE {SubSeq(order, 1, i) \o <<key>> \o SubSeq(order, i + 1, Len(order)) :
              i \in 0..Len(order)}

\* None
None == "None"

----------------------------------------------------------------------------
(* ExtensionRegistry                                                       *)

\* register_grammar: the rule_to_parser it leaves
RuleToParserAfter(extension) ==
    [r \in DOMAIN rule_to_parser \cup Range(extension.statement_rules) |->
        IF r \in Range(extension.statement_rules) THEN extension.extension_id
        ELSE rule_to_parser[r]]

register_grammar(extension) ==
    /\ rule_to_parser' = RuleToParserAfter(extension)
    /\ grammar_extensions' =
           Insert(grammar_extensions, extension.extension_id, extension)
    /\ iter_order' \in OrdersAfterInsert(iter_order, extension.extension_id)

register_parser(parser, parser_id) ==
    statement_parsers' = Insert(statement_parsers, parser_id, parser)

\* sort_by_key(|b| Reverse(b.priority())): a stable sort, highest priority first
RECURSIVE SortByPriority(_)
InsertByPriority(sorted, x) ==
    LET after == {i \in 1..Len(sorted) : sorted[i].priority >= x.priority}
        k == IF after = {} THEN 0 ELSE CHOOSE i \in after : \A j \in after : j <= i
    IN  SubSeq(sorted, 1, k) \o <<x>> \o SubSeq(sorted, k + 1, Len(sorted))
SortByPriority(exts) ==
    IF exts = <<>> THEN <<>>
    ELSE InsertByPriority(SortByPriority(SubSeq(exts, 1, Len(exts) - 1)), exts[Len(exts)])

\* the extensions as the map iterates them, the sort left out
UnsortedExtensions(exts, order) == [i \in 1..Len(order) |-> exts[order[i]]]

\* the extensions in the order compose_grammar emits them
SortedExtensions(exts, order) ==
    SortByPriority([i \in 1..Len(order) |-> exts[order[i]]])

RECURSIVE PushRules(_, _)
PushRules(composed, exts) ==
    IF exts = <<>> THEN composed
    ELSE PushRules(composed \o <<"\n">> \o Head(exts).grammar_rules, Tail(exts))

\* compose_grammar on a registry that holds exts and iterates them in order
ComposeGrammarOf(exts, order, base) ==
    PushRules(base, SortedExtensions(exts, order))

compose_grammar(base) == ComposeGrammarOf(grammar_extensions, iter_order, base)

find_parser(rule_name) ==
    IF rule_name \in DOMAIN rule_to_parser
    THEN IF rule_to_parser[rule_name] \in DOMAIN statement_parsers
         THEN statement_parsers[rule_to_parser[rule_name]]
         ELSE None
    ELSE None

can_handle(rule_name) == rule_name \in DOMAIN rule_to_parser

----------------------------------------------------------------------------
(* GrammarComposer                                                         *)

\* Result<String, GrammarCompositionError>: kind is "Ok" or the error's variant,
\* msg the fixed part of an error's message, text the grammar of an Ok or the
\* part of an error's message that is filled in
Ok(text) == [kind |-> "Ok", msg |-> "", text |-> text]
Err(kind, msg, text) == [kind |-> kind, msg |-> msg, text |-> text]
IsOk(result) == result.kind = "Ok"

\* validate_base_grammar
required_rules == <<AnnotatedStmtHead, AnnotationTilde, SendStmt, BroadcastStmt>>

validate_base_grammar(grammar) ==
    LET missing == {i \in 1..Len(required_rules) : ~Contains(grammar, required_rules[i])}
    IN  IF missing = {} THEN Ok(<<>>)
        ELSE Err("InvalidBaseGrammar", "Missing required rule: ",
                 required_rules[CHOOSE i \in missing : \A j \in missing : i <= j])

\* extract_extension_statements: the loop over the lines
IsStatementLine(line) == Contains(line, <<"=">>) /\ EndsWith(line, StmtRuleTail)

RECURSIVE ExtractFromLines(_)
ExtractFromLines(ls) ==
    IF ls = <<>> THEN <<>>
    ELSE LET line == Trim(Head(ls))
         IN  (IF IsStatementLine(line) THEN <<Trim(SplitFirst(line, <<"=">>))>> ELSE <<>>)
             \o ExtractFromLines(Tail(ls))

extract_extension_statements(extension_rules) == ExtractFromLines(Lines(extension_rules))

\* inject_extension_rules: the statements put in before the parenthesis at
\* alternatives_end
SpliceStatements(grammar, alternatives_end, extension_statements) ==
    IF extension_statements # <<>>
    THEN SubSeq(grammar, 1, alternatives_end - 1) \o <<" ", "|", " ">>
         \o Join(extension_statements, <<" ", "|", " ">>)
         \o SubSeq(grammar, alternatives_end, Len(grammar))
    ELSE grammar

\* the rule definitions appended a second time
AppendRulesTwice(grammar, extension_rules) ==
    grammar \o <<"\n">> \o ExtensionRulesMarker \o extension_rules \o extension_rules

\* inject_extension_rules: the rule definitions appended at the end
AppendRules(grammar, extension_rules) ==
    grammar \o <<"\n">> \o ExtensionRulesMarker \o extension_rules

inject_extension_rules(grammar, extension_rules) ==
    LET alternatives_start == Find(grammar, AlternativesHead)
        rest == SubSeq(grammar, alternatives_start, Len(grammar))
        alternatives_end == Find(rest, <<")">>) + alternatives_start - 1
    IN  IF Find(grammar, AnnotatedStmtHead) = 0
        THEN Err("InvalidBaseGrammar", "Could not find annotated_stmt rule", <<>>)
        ELSE IF alternatives_start = 0
        THEN Err("InvalidBaseGrammar", "Could not find statement alternatives", <<>>)
        ELSE IF Find(rest, <<")">>) = 0
        THEN Err("InvalidBaseGrammar", "Could not find end of statement alternatives", <<>>)
        ELSE Ok(AppendRules(SpliceStatements(grammar, alternatives_end,
                                             extract_extension_statements(extension_rules)),
                            extension_rules))

\* validate_composed_grammar: the loop over the lines, rule_names the HashSet so far
IsRuleLine(line) == Contains(line, RuleMark) /\ ~StartsWith(line, <<"/", "/">>)

RECURSIVE FindDuplicateRule(_, _)
FindDuplicateRule(ls, rule_names) ==
    IF ls = <<>> THEN Ok(<<>>)
    ELSE LET line == Trim(Head(ls))
             rule_name == Trim(SplitFirst(line, RuleMark))
         IN  IF ~IsRuleLine(line) THEN FindDuplicateRule(Tail(ls), rule_names)
             ELSE IF rule_name \in rule_names THEN Err("DuplicateRule", "", rule_name)
             ELSE FindDuplicateRule(Tail(ls), rule_names \cup {rule_name})

validate_composed_grammar(grammar) ==
    LET duplicate == FindDuplicateRule(Lines(grammar), {})
    IN  IF ~IsOk(duplicate) THEN duplicate
        ELSE IF CountChar(grammar, "{") # CountChar(grammar, "}")
        THEN Err("SyntaxError", "Unbalanced braces in composed grammar", <<>>)
        ELSE Ok(<<>>)

\* compose, on a composer with this base grammar whose registry returns
\* extension_rules from compose_grammar("")
ComposeOf(base, extension_rules) ==
    LET based == validate_base_grammar(base)
        injected == IF Trim(extension_rules) # <<>>
                    THEN inject_extension_rules(base, extension_rules)
                    ELSE Ok(base)
        validated == validate_composed_grammar(injected.text)
    IN  IF ~IsOk(based) THEN based
        ELSE IF ~IsOk(injected) THEN injected
        ELSE IF ~IsOk(validated) THEN validated
        ELSE Ok(injected.text)

compose == ComposeOf(base_grammar, compose_grammar(<<>>))

has_extension_rule(rule_name) == can_handle(rule_name)

extension_count == Cardinality(DOMAIN grammar_extensions)

----------------------------------------------------------------------------
(* The operations, as steps: each leaves in ret the call and its result.   *)

Call(op, arg, result) == [op |-> op, arg |-> arg, result |-> result]

EmptyMap == [k \in {} |-> None]

\* GrammarComposer::new or GrammarComposerBuilder::new
Init ==
    /\ base_grammar = BaseGrammar
    /\ grammar_extensions = EmptyMap
    /\ iter_order = <<>>
    /\ statement_parsers = EmptyMap
    /\ rule_to_parser = EmptyMap
    /\ builder \in BOOLEAN
    /\ registered = <<>>
    /\ ret = Call("new", <<>>, None)

CanRegister(extension) ==
    \/ extension.extension_id \in DOMAIN grammar_extensions
    \/ Cardinality(DOMAIN grammar_extensions) < MaxExtensions

Registered(extension) ==
    IF extension.extension_id \in Range(registered) THEN registered
    ELSE Append(registered, extension.extension_id)

\* GrammarComposer::register_extension
RegisterExtension(extension) ==
    /\ ~builder
    /\ CanRegister(extension)
    /\ register_grammar(extension)
    /\ registered' = Registered(extension)
    /\ ret' = Call("register_extension", extension, None)
    /\ UNCHANGED <<base_grammar, statement_parsers, builder>>

\* GrammarComposer::register_extension_from_trait: the extension is not used,
\* nothing is stored, and Ok(()) is returned
RegisterExtensionFromTrait(extension) ==
    /\ ~builder
    /\ ret' = Call("register_extension_from_trait", extension, Ok(<<>>))
    /\ UNCHANGED <<base_grammar, grammar_extensions, iter_order, statement_parsers,
                   rule_to_parser, builder, registered>>

\* GrammarComposerBuilder::with_extension
WithExtension(extension) ==
    /\ builder
    /\ CanRegister(extension)
    /\ register_grammar(extension)
    /\ registered' = Registered(extension)
    /\ ret' = Call("with_extension", extension, None)
    /\ UNCHANGED <<base_grammar, statement_parsers, builder>>

\* GrammarComposerBuilder::build
Build ==
    /\ builder
    /\ builder' = FALSE
    /\ ret' = Call("build", <<>>, None)
    /\ UNCHANGED <<base_grammar, grammar_extensions, iter_order, statement_parsers,
                   rule_to_parser, registered>>

\* what a call that only reads leaves as it is
composer == <<base_grammar, grammar_extensions, iter_order, statement_parsers,
              rule_to_parser, builder, registered>>

\* ExtensionRegistry::register_parser
RegisterParser(parser, parser_id) ==
    /\ ~builder
    /\ register_parser(parser, parser_id)
    /\ ret' = Call("register_parser", <<>>, None)
    /\ UNCHANGED <<base_grammar, grammar_extensions, iter_order, rule_to_parser,
                   builder, registered>>

\* GrammarComposer::compose
Compose ==
    /\ ~builder
    /\ ret' = Call("compose", <<>>, compose)
    /\ UNCHANGED composer

\* ExtensionRegistry::compose_grammar
ComposeGrammar(base) ==
    /\ ~builder
    /\ ret' = Call("compose_grammar", base, compose_grammar(base))
    /\ UNCHANGED composer

\* ExtensionRegistry::find_parser
FindParser(rule_name) ==
    /\ ~builder
    /\ ret' = Call("find_parser", rule_name, find_parser(rule_name))
    /\ UNCHANGED composer

\* GrammarComposer::has_extension_rule
HasExtensionRule(rule_name) ==
    /\ ~builder
    /\ ret' = Call("has_extension_rule", rule_name, has_extension_rule(rule_name))
    /\ UNCHANGED composer

\* GrammarComposer::extension_count
ExtensionCount ==
    /\ ~builder
    /\ ret' = Call("extension_count", <<>>, extension_count)
    /\ UNCHANGED composer

Next ==
    \/ \E extension \in Extensions : RegisterExtension(extension)
    \/ \E extension \in TraitExtensions : RegisterExtensionFromTrait(extension)
    \/ \E extension \in Extensions : WithExtension(extension)
    \/ Build
    \/ \E parser \in Parsers, parser_id \in ParserIds : RegisterParser(parser, parser_id)
    \/ Compose
    \/ \E base \in BaseArguments : ComposeGrammar(base)
    \/ \E rule_name \in RuleNames : FindParser(rule_name)
    \/ \E rule_name \in RuleNames : HasExtensionRule(rule_name)
    \/ ExtensionCount

Spec == Init /\ [][Next]_vars

----------------------------------------------------------------------------
(* compose as a function of the base grammar text and of the registered    *)
(* rule text: composers over each of BaseGrammars, ComposedExtensions      *)
(* registered with them, and compose called.                               *)

BaseInit ==
    /\ base_grammar \in BaseGrammars
    /\ grammar_extensions = EmptyMap
    /\ iter_order = <<>>
    /\ statement_parsers = EmptyMap
    /\ rule_to_parser = EmptyMap
    /\ builder = FALSE
    /\ registered = <<>>
    /\ ret = Call("new", <<>>, None)

BaseNext ==
    \/ \E extension \in ComposedExtensions : RegisterExtension(extension)
    \/ Compose

BaseSpec == BaseInit /\ [][BaseNext]_vars

----------------------------------------------------------------------------
(* Projection (compiler::projection).  The protocol tree, the local types  *)
(* and the projection are written from the specification of the projection *)
(* engine; of the engine the sources hold only the contract an extension   *)
(* implements (ProtocolExtension::mentions_role, validate, project).       *)
(* Roles are plain roles, and no node is an extension node.                *)

\* Protocol
End == [node |-> "End"]
Send(from, to, message, continuation) ==
    [node |-> "Send", from |-> from, to |-> to, message |-> message,
     continuation |-> continuation]
Choice(decider, branches) == [node |-> "Choice", decider |-> decider, branches |-> branches]
Loop(body) == [node |-> "Loop", body |-> body]

\* one entry of the ordered mapping label -> Protocol of a Choice
Branch(label, protocol) == [label |-> label, protocol |-> protocol]

\* LocalType
LocalEnd == [node |-> "End"]
LocalSend(to, message, continuation) ==
    [node |-> "Send", to |-> to, message |-> message, continuation |-> continuation]
LocalReceive(from, message, continuation) ==
    [node |-> "Receive", from |-> from, message |-> message, continuation |-> continuation]
InternalChoice(continuations) == [node |-> "InternalChoice", continuations |-> continuations]
ExternalChoice(continuations) == [node |-> "ExternalChoice", continuations |-> continuations]
LocalLoop(body) == [node |-> "Loop", body |-> body]

\* Result<LocalType, ProjectionError>
Projected(local_type) == [kind |-> "Ok", local_type |-> local_type]
NotProjectable == [kind |-> "NotProjectable"]
UnknownRole == [kind |-> "UnknownRole"]

\* "which roles does this mention"
RECURSIVE mentions_role(_, _)
mentions_role(protocol, role) ==
    CASE protocol.node = "End" -> FALSE
      [] protocol.node = "Send" ->
            \/ role \in {protocol.from, protocol.to}
            \/ mentions_role(protocol.continuation, role)
      [] protocol.node = "Choice" ->
            \/ role = protocol.decider
            \/ \E i \in DOMAIN protocol.branches :
                  mentions_role(protocol.branches[i].protocol, role)
      [] protocol.node = "Loop" -> mentions_role(protocol.body, role)

\* every role a protocol names
RECURSIVE RolesOf(_)
RolesOf(protocol) ==
    CASE protocol.node = "End" -> {}
      [] protocol.node = "Send" ->
            {protocol.from, protocol.to} \cup RolesOf(protocol.continuation)
      [] protocol.node = "Choice" ->
            {protocol.decider}
            \cup UNION {RolesOf(protocol.branches[i].protocol) : i \in DOMAIN protocol.branches}
      [] protocol.node = "Loop" -> RolesOf(protocol.body)

\* a Choice is well formed when its labels are duplicate-free and every
\* branch is well formed
RECURSIVE LabelsDistinct(_)
LabelsDistinct(protocol) ==
    CASE protocol.node = "End" -> TRUE
      [] protocol.node = "Send" -> LabelsDistinct(protocol.continuation)
      [] protocol.node = "Choice" ->
            /\ \A i, j \in DOMAIN protocol.branches :
                  i # j => protocol.branches[i].label # protocol.branches[j].label
            /\ \A i \in DOMAIN protocol.branches :
                  LabelsDistinct(protocol.branches[i].protocol)
      [] protocol.node = "Loop" -> LabelsDistinct(protocol.body)

\* role and structural validation, which come before projection
validate(roles, protocol) ==
    IF ~(RolesOf(protocol) \subseteq roles) THEN [kind |-> "UndeclaredRole"]
    ELSE IF ~LabelsDistinct(protocol) THEN [kind |-> "DuplicateLabel"]
    ELSE [kind |-> "Ok"]

\* a Send step, given the projection of its continuation; the receiver is
\* taken for the sender
ProjectSendReversed(protocol, target_role, continuation) ==
    IF ~IsOk(continuation) THEN continuation
    ELSE IF target_role = protocol.to
    THEN Projected(LocalSend(protocol.from, protocol.message, continuation.local_type))
    ELSE IF target_role = protocol.from
    THEN Projected(LocalReceive(protocol.to, protocol.message, continuation.local_type))
    ELSE continuation

\* a Send step, given the projection of its continuation
ProjectSend(protocol, target_role, continuation) ==
    IF ~IsOk(continuation) THEN continuation
    ELSE IF target_role = protocol.from
    THEN Projected(LocalSend(protocol.to, protocol.message, continuation.local_type))
    ELSE IF target_role = protocol.to
    THEN Projected(LocalReceive(protocol.from, protocol.message, continuation.local_type))
    ELSE continuation

\* the first of the local types, whatever the others are
MergeFirst(local_types) == Projected(local_types[1])

\* merge: the local types must be structurally identical, and that common
\* local type is the result
Merge(local_types) ==
    IF \A i, j \in DOMAIN local_types : local_types[i] = local_types[j]
    THEN Projected(local_types[1])
    ELSE NotProjectable

\* one continuation per label, for the branches kept, in the branches' order
Continuations(branches, projections, kept) ==
    LET labelled == [i \in DOMAIN branches |->
                        [label |-> branches[i].label,
                         local_type |-> projections[i].local_type]]
        labels == {branches[i].label : i \in kept}
    IN  SelectSeq(labelled, LAMBDA c : c.label \in labels)

\* the projections of the branches numbered in from, in the branches' order
RECURSIVE LocalTypesOf(_, _, _)
LocalTypesOf(projections, from, i) ==
    IF i > Len(projections) THEN <<>>
    ELSE (IF i \in from THEN <<projections[i].local_type>> ELSE <<>>)
         \o LocalTypesOf(projections, from, i + 1)

\* a Choice whose non-decider target takes part in every branch is rejected
\* unless the branches give it one and the same local type
ProjectChoiceUniform(protocol, target_role, projections) ==
    LET branches == protocol.branches
        failed == {i \in DOMAIN branches : ~IsOk(projections[i])}
    IN  IF failed # {} THEN projections[Min(failed)]
        ELSE IF target_role = protocol.decider
        THEN Projected(InternalChoice(Continuations(branches, projections, DOMAIN branches)))
        ELSE Merge(LocalTypesOf(projections, DOMAIN branches, 1))

\* a Choice, given the projections of its branches.  The decider selects; a
\* role that takes part in every branch is offered every label; a role that
\* takes part in none gets the one local type all branches leave it.  A role
\* that takes part in some branches only is offered their labels, and the
\* branches it is absent from must leave it that same local type: it cannot
\* tell which branch runs, so a choice such as UnreconciledChoice is not
\* projectable for it.
ProjectChoice(protocol, target_role, projections) ==
    LET branches == protocol.branches
        failed == {i \in DOMAIN branches : ~IsOk(projections[i])}
        present == {i \in DOMAIN branches : mentions_role(branches[i].protocol, target_role)}
        absent == DOMAIN branches \ present
        offered == ExternalChoice(Continuations(branches, projections, present))
    IN  IF failed # {} THEN projections[Min(failed)]
        ELSE IF target_role = protocol.decider
        THEN Projected(InternalChoice(Continuations(branches, projections, DOMAIN branches)))
        ELSE IF present = {} THEN Merge(LocalTypesOf(projections, absent, 1))
        ELSE IF absent = {} THEN Projected(offered)
        ELSE Merge(<<offered>> \o LocalTypesOf(projections, absent, 1))

RECURSIVE project(_, _)
project(protocol, target_role) ==
    CASE protocol.node = "End" -> Projected(LocalEnd)
      [] protocol.node = "Send" ->
            ProjectSend(protocol, target_role, project(protocol.continuation, target_role))
      [] protocol.node = "Choice" ->
            ProjectChoice(protocol, target_role,
                          [i \in DOMAIN protocol.branches |->
                              project(protocol.branches[i].protocol, target_role)])
      [] protocol.node = "Loop" ->
            LET body == project(protocol.body, target_role)
            IN  IF IsOk(body) THEN Projected(LocalLoop(body.local_type)) ELSE body

\* project(protocol, target_role) for a choreography that declares roles
ProjectFor(roles, protocol, target_role) ==
    IF target_role \notin roles THEN UnknownRole ELSE project(protocol, target_role)

----------------------------------------------------------------------------
(* The choreographies projected: they declare Alice, Bob and Charlie.      *)

Roles == {"Alice", "Bob", "Charlie"}
Messages == {"Message1", "Message2"}
Labels == <<"path1", "path2", "path3">>

\* the roles a projection is asked for; Dave is not declared
TargetRoles == Roles \cup {"Dave"}

\* a sequence of at most this many Send steps stands before a tail
MaxSteps == 2

\* the Send steps that can stand before a continuation
Steps(continuation) ==
    {Send(from, to, message, continuation) :
        from \in Roles, to \in Roles, message \in Messages} \ 
    {Send(role, role, message, continuation) : role \in Roles, message \in Messages}

RECURSIVE Chains(_, _)
Chains(n, tails) ==
    IF n = 0 THEN tails
    ELSE tails \cup UNION {Steps(continuation) : continuation \in Chains(n - 1, tails)}

\* Alice -> Bob: Message1
SingleStep == Send("Alice", "Bob", "Message1", End)

\* choice_constructs_test.rs, ComplexChoice: the two paths
Path1 == Send("Alice", "Bob", "Message1", Send("Bob", "Charlie", "Message2", End))
Path2 == Send("Alice", "Charlie", "Message2", Send("Charlie", "Bob", "Message1", End))

ComplexChoice == Choice("Alice", <<Branch("path1", Path1), Branch("path2", Path2)>>)

\* choice at Alice { path1: Alice -> Bob: M1; path2: Alice -> Charlie: M2 }
UnreconciledChoice ==
    Choice("Alice",
           <<Branch("path1", Send("Alice", "Bob", "Message1", End)),
             Branch("path2", Send("Alice", "Charlie", "Message2", End))>>)

\* what a branch of a two-way choice can be
Branches == Chains(1, {End}) \cup {Path1, Path2, Loop(End), Loop(SingleStep)}

\* what a branch of a three-way choice can be
FewBranches ==
    {SingleStep, Loop(SingleStep), Send("Alice", "Charlie", "Message2", End),
     Send("Bob", "Alice", "Message1", End)}

Choices ==
    {Choice(decider, <<Branch(Labels[1], b1), Branch(Labels[2], b2)>>) :
        decider \in Roles, b1 \in Branches, b2 \in Branches}
    \cup
    {Choice("Alice", <<Branch(Labels[1], b1), Branch(Labels[2], b2), Branch(Labels[3], b3)>>) :
        b1 \in FewBranches, b2 \in FewBranches, b3 \in FewBranches}

\* protocols that validation rejects: an undeclared role, a label used twice
IllFormed ==
    {Send("Alice", "Dave", "Message1", End),
     Choice("Alice", <<Branch("path1", SingleStep), Branch("path1", End)>>)}

\* a choice between one exchange and a loop of it
LoopOrStep ==
    Choice("Alice", <<Branch("path1", SingleStep), Branch("path2", Loop(SingleStep))>>)

\* what can follow a sequence of Send steps
Tails == {End, ComplexChoice, UnreconciledChoice, LoopOrStep}

Protocols == Chains(MaxSteps, Tails) \cup Choices \cup Branches \cup IllFormed

\* the external parser has delivered a choreography, and a role is chosen
ProjectionInit ==
    /\ base_grammar = BaseGrammar
    /\ grammar_extensions = EmptyMap
    /\ iter_order = <<>>
    /\ statement_parsers = EmptyMap
    /\ rule_to_parser = EmptyMap
    /\ builder = FALSE
    /\ registered = <<>>
    /\ \E protocol \in Protocols, target_role \in TargetRoles :
          ret = Call("parse", [protocol |-> protocol, target_role |-> target_role], None)

\* role and structural validation of the parsed choreography
Validate ==
    /\ ret.op = "parse"
    /\ ret' = Call("validate", ret.arg, validate(Roles, ret.arg.protocol))
    /\ UNCHANGED composer

\* projection of a validated choreography for the chosen role
Project ==
    /\ ret.op = "validate"
    /\ IsOk(ret.result)
    /\ ret' = Call("project", ret.arg,
                   ProjectFor(Roles, ret.arg.protocol, ret.arg.target_role))
    /\ UNCHANGED composer

ProjectionNext == Validate \/ Project

ProjectionSpec == ProjectionInit /\ [][ProjectionNext]_vars

----------------------------------------------------------------------------
(* What the claims speak of.                                               *)

RegisteredExtensions == {grammar_extensions[id] : id \in DOMAIN grammar_extensions}

Lists(extension, rule_name) == rule_name \in Range(extension.statement_rules)

\* the orders in which a map holding these keys can iterate
Orders(keys) ==
    {order \in [1..Cardinality(keys) -> keys] :
        \A i, j \in 1..Cardinality(keys) : i # j => order[i] # order[j]}

\* what compose_grammar pushes for an extension: a newline, then its rule text
Emitted(extension) == <<"\n">> \o extension.grammar_rules

\* in out, the emitted text of a is found, and that of b after its end
EmittedBefore(out, a, b) ==
    LET i == Find(out, Emitted(a))
    IN  /\ i # 0
        /\ Contains(SubSeq(out, i + Len(Emitted(a)), Len(out)), Emitted(b))

\* a call of compose returned Ok
ComposedOk == ret.op = "compose" /\ IsOk(ret.result)

\* C1: when two registered extensions with different ids both list the same
\* statement rule, compose returns Err(DuplicateRule), never Ok.
C1_SharedStatementRuleIsDuplicateRule ==
    (/\ ret.op = "compose"
     /\ \E a, b \in RegisteredExtensions :
            /\ a.extension_id # b.extension_id
            /\ \E r \in Range(a.statement_rules) : Lists(b, r))
    => ret.result.kind = "DuplicateRule"

\* C2: once a rule name has an owner, no step gives it another owner.
C2_OwnerNeverReplaced ==
    [][\A r \in DOMAIN rule_to_parser :
          r \in DOMAIN rule_to_parser' /\ rule_to_parser'[r] = rule_to_parser[r]]_vars

\* C3: in the output of compose_grammar, and in the Ok output of compose, the
\* rule text of a registered extension comes before the rule text of every
\* registered extension of lower priority.
C3_HigherPriorityFirst ==
    (ret.op = "compose_grammar" \/ ComposedOk)
    => LET out == IF ret.op = "compose_grammar" THEN ret.result ELSE ret.result.text
       IN  \A a, b \in RegisteredExtensions :
               a.priority > b.priority => EmittedBefore(out, a, b)

\* compose returned Ok for two extensions of different priority, of which the
\* one of lower priority was registered first and is iterated first
C3_Witness ==
    /\ ComposedOk
    /\ Len(registered) = 2
    /\ registered = iter_order
    /\ grammar_extensions[registered[1]].priority
           < grammar_extensions[registered[2]].priority

\* C4: in the output of compose_grammar, of two registered extensions of equal
\* priority the one registered first comes first.
C4_TiesInRegistrationOrder ==
    ret.op = "compose_grammar"
    => \A i, j \in 1..Len(registered) :
           (/\ i < j
            /\ grammar_extensions[registered[i]].priority
                   = grammar_extensions[registered[j]].priority)
           => EmittedBefore(ret.result, grammar_extensions[registered[i]],
                            grammar_extensions[registered[j]])

\* C5: what compose returns depends on the registered extensions alone, not on
\* the order in which the map of extensions iterates.
C5_ComposeIgnoresIterationOrder ==
    ret.op = "compose"
    => \A order \in Orders(DOMAIN grammar_extensions) :
           ComposeOf(base_grammar, ComposeGrammarOf(grammar_extensions, order, <<>>))
               = ret.result

\* the alternatives of the statement group of a grammar: what stands between
\* "annotation* ~ (" and the parenthesis that closes the group
Alternation == <<" ", "|", " ">>

StatementGroup(grammar) ==
    LET from == Find(grammar, AlternativesHead)
        rest == SubSeq(grammar, from, Len(grammar))
    IN  IF from = 0 \/ Find(rest, <<")">>) = 0 THEN <<>>
        ELSE SubSeq(rest, 1, Find(rest, <<")">>) - 1)

IsAlternative(grammar, rule_name) ==
    \/ EndsWith(StatementGroup(grammar), Alternation \o rule_name)
    \/ Contains(StatementGroup(grammar), Alternation \o rule_name \o Alternation)

\* C6: in the Ok output of compose every statement rule of every registered
\* extension is an alternative of the statement group of the base grammar.
C6_StatementRulesSpliced ==
    ComposedOk
    => \A e \in RegisteredExtensions : \A i \in 1..Len(e.statement_rules) :
           IsAlternative(ret.result.text, e.statement_rules[i])

\* the number of places of s at which p occurs
Occurrences(s, p) ==
    IF Len(p) > Len(s) THEN 0
    ELSE Cardinality({i \in 1..(Len(s) - Len(p) + 1) : MatchesAt(s, p, i)})

\* C7, as claimed: in every Ok output of compose with an extension registered,
\* the marker is there, and the rule text of every registered extension occurs
\* once, after the marker.
C7_EveryRuleTextOnceAfterMarker ==
    (ComposedOk /\ RegisteredExtensions # {})
    => /\ Contains(ret.result.text, ExtensionRulesMarker)
       /\ \A e \in RegisteredExtensions :
              /\ Occurrences(ret.result.text, e.grammar_rules) = 1
              /\ Find(ret.result.text, e.grammar_rules)
                     > Find(ret.result.text, ExtensionRulesMarker)

\* the base grammar with alternatives added to its statement group, and nothing
\* else changed
IsSplicedBase(grammar) ==
    LET from == Find(base_grammar, AlternativesHead)
        close == from + Find(SubSeq(base_grammar, from, Len(base_grammar)), <<")">>) - 1
    IN  /\ StartsWith(grammar, SubSeq(base_grammar, 1, close - 1))
        /\ EndsWith(grammar, SubSeq(base_grammar, close, Len(base_grammar)))

RECURSIVE EmittedAll(_, _)
EmittedAll(exts, order) ==
    IF order = <<>> THEN <<>>
    ELSE Emitted(exts[Head(order)]) \o EmittedAll(exts, Tail(order))

\* some registered extension has rule text that is not blank
SomeRuleText == \E e \in RegisteredExtensions : Trim(e.grammar_rules) # <<>>

\* C7, amended: an Ok output of compose is the spliced base grammar, a
\* newline, the marker and then, for every registered extension once, a
\* newline and its rule text, when some registered extension has rule text
\* that is not blank; it is the base grammar and nothing more when none has.
C7_RuleTextsAppendedOnce ==
    ComposedOk
    => IF SomeRuleText
       THEN \E order \in Orders(DOMAIN grammar_extensions) :
                LET tail == <<"\n">> \o ExtensionRulesMarker
                                \o EmittedAll(grammar_extensions, order)
                IN  /\ EndsWith(ret.result.text, tail)
                    /\ IsSplicedBase(SubSeq(ret.result.text, 1,
                                            Len(ret.result.text) - Len(tail)))
       ELSE ret.result.text = base_grammar

\* compose returned Ok for two extensions with rule text
C7_Witness ==
    /\ ComposedOk
    /\ Cardinality(RegisteredExtensions) = 2
    /\ \A e \in RegisteredExtensions : Trim(e.grammar_rules) # <<>>

\* the forms in which a grammar defines a rule: name = {, and with a modifier
\* name = _{, name = @{, name = ${, name = !{
DefinitionMarks ==
    {<<" ", "=", " ">> \o m \o <<"{">> : m \in {<<>>, <<"_">>, <<"@">>, <<"$">>, <<"!">>}}

Defines(line, rule_name) ==
    /\ ~StartsWith(Trim(line), <<"/", "/">>)
    /\ \E mark \in DefinitionMarks : StartsWith(Trim(line), rule_name \o mark)

\* the base grammar and the registered rule texts, each under a name
DefinitionSources ==
    {<<"base", base_grammar>>}
        \cup {<<e.extension_id, e.grammar_rules>> : e \in RegisteredExtensions}

\* the lines of text that define rule_name
DefiningLines(text, rule_name) ==
    LET ls == Lines(text) IN {k \in 1..Len(ls) : Defines(ls[k], rule_name)}

\* what stands before " =" on the lines of text
NamesIn(text) ==
    LET ls == Lines(text) IN {Trim(SplitFirst(ls[k], <<" ", "=">>)) : k \in 1..Len(ls)}

\* the rule name is defined by more than one line of the base grammar and the
\* registered rule texts together
DefinedTwice(rule_name) ==
    Cardinality(UNION {{<<src[1], k>> : k \in DefiningLines(src[2], rule_name)} :
                          src \in DefinitionSources}) > 1

\* C8: compose returns Err(DuplicateRule) whenever a rule name is defined more
\* than once in the base grammar and the rule texts of the registered
\* extensions, in whatever form the definitions are written.
C8_EveryDuplicateDefinitionRejected ==
    (/\ ret.op = "compose"
     /\ \E src \in DefinitionSources : \E name \in NamesIn(src[2]) : DefinedTwice(name))
    => ret.result.kind = "DuplicateRule"

\* C9: find_parser returns the parser registered for an extension that lists
\* the rule name, and None for a rule name that no registered extension lists.
C9_FindParserResolvesOwner ==
    ret.op = "find_parser"
    => LET owners == {e \in RegisteredExtensions :
                         /\ Lists(e, ret.arg)
                         /\ e.extension_id \in DOMAIN statement_parsers}
       IN  /\ owners # {}
               => ret.result \in {statement_parsers[e.extension_id] : e \in owners}
           /\ (\A e \in RegisteredExtensions : ~Lists(e, ret.arg))
               => ret.result = None

\* C10: has_extension_rule is true of a rule name exactly when a registered
\* extension lists it.
C10_HandledIffListed ==
    ret.op = "has_extension_rule"
    => (ret.result <=> \E e \in RegisteredExtensions : Lists(e, ret.arg))

\* C11: once register_extension_from_trait(e) has returned Ok(()), e is in the
\* registry: extension_count counts it, has_extension_rule is true of each of
\* its statement rules, and compose_grammar emits its rule text, as after
\* register_extension(e).
C11_FromTraitRegisters ==
    (ret.op = "register_extension_from_trait" /\ IsOk(ret.result))
    => /\ ret.arg \in RegisteredExtensions
       /\ extension_count >= 1
       /\ \A rule_name \in Range(ret.arg.statement_rules) : has_extension_rule(rule_name)
       /\ Contains(compose_grammar(<<>>), Emitted(ret.arg))

\* the statement extension point: the annotated_stmt rule with its
\* annotation* ~ (send_stmt | broadcast_stmt ...) alternation
HasExtensionPoint(grammar) ==
    /\ Contains(grammar, AnnotatedStmtHead)
    /\ Contains(grammar, AlternativesHead)

OutsideLiterals(text, i) ==
    Cardinality({k \in 1..(i - 1) : text[k] = "\""}) % 2 = 0

\* as grammar, the text opens as many braces as it closes
BalancedAsGrammar(text) ==
    Cardinality({i \in 1..Len(text) : text[i] = "{" /\ OutsideLiterals(text, i)})
    = Cardinality({i \in 1..Len(text) : text[i] = "}" /\ OutsideLiterals(text, i)})

SameBraceCounts(text) == CountChar(text, "{") = CountChar(text, "}")

\* the text compose hands to validate_composed_grammar
ComposedText ==
    IF Trim(compose_grammar(<<>>)) # <<>>
    THEN inject_extension_rules(base_grammar, compose_grammar(<<>>))
    ELSE Ok(base_grammar)

\* C13: compose returns Ok only for a composed grammar with as many '{' as '}';
\* a composed text with different counts, in which no duplicate rule name is
\* found first, gives Err(SyntaxError); and extensions whose rule text is
\* brace-balanced as grammar never cause SyntaxError on a balanced base.
C13_SyntaxErrorIffUnbalanced ==
    ret.op = "compose"
    => /\ IsOk(ret.result) => SameBraceCounts(ret.result.text)
       /\ (/\ IsOk(validate_base_grammar(base_grammar))
           /\ IsOk(ComposedText)
           /\ ~SameBraceCounts(ComposedText.text)
           /\ IsOk(FindDuplicateRule(Lines(ComposedText.text), {})))
          => ret.result.kind = "SyntaxError"
       /\ (/\ BalancedAsGrammar(base_grammar)
           /\ \A e \in RegisteredExtensions : BalancedAsGrammar(e.grammar_rules))
          => ret.result.kind # "SyntaxError"

\* a call of project for a declared role, on a choreography that passed role
\* and structural validation
ProjectedFor(protocol, target_role) ==
    /\ ret.op = "project"
    /\ ret.arg = [protocol |-> protocol, target_role |-> target_role]
    /\ target_role \in Roles
    /\ IsOk(validate(Roles, protocol))

ProjectedDeclared == ProjectedFor(ret.arg.protocol, ret.arg.target_role)

\* the node that follows the leading Send steps of a protocol
RECURSIVE TailOf(_)
TailOf(protocol) ==
    IF protocol.node = "Send" THEN TailOf(protocol.continuation) ELSE protocol

\* the branches of a Choice that do not mention the role
AbsentFrom(choice, role) ==
    {i \in DOMAIN choice.branches : ~mentions_role(choice.branches[i].protocol, role)}

\* the role is absent from two branches of the Choice whose projections for
\* it are not structurally identical
AbsentBranchesDiffer(choice, role) ==
    \E i, j \in AbsentFrom(choice, role) :
        project(choice.branches[i].protocol, role) # project(choice.branches[j].protocol, role)

\* C14: merge law.  When a protocol comes to a Choice of which the target role
\* is not the decider, and the role's projections of two branches it is absent
\* from are not structurally identical, project fails with NotProjectable and
\* returns no branch's projection; and projecting Charlie from
\* choice at Alice { path1: Alice -> Bob: M1; path2: Alice -> Charlie: M2 } fails.
C14_MergeLaw ==
    ProjectedDeclared
    => LET choice == TailOf(ret.arg.protocol)
           role == ret.arg.target_role
       IN  /\ (/\ choice.node = "Choice"
               /\ role # choice.decider
               /\ AbsentBranchesDiffer(choice, role))
              => ret.result = NotProjectable
           /\ (ret.arg.protocol = UnreconciledChoice /\ role = "Charlie")
              => ret.result = NotProjectable

C14_Witness ==
    /\ ProjectedDeclared
    /\ ret.arg.protocol.node = "Choice"
    /\ ret.arg.target_role # ret.arg.protocol.decider
    /\ AbsentBranchesDiffer(ret.arg.protocol, ret.arg.target_role)
    /\ ret.result = NotProjectable

RECURSIVE Silent(_)
Silent(protocol) ==
    CASE protocol.node = "End" -> LocalEnd
      [] protocol.node = "Send" -> Silent(protocol.continuation)
      [] protocol.node = "Choice" -> Silent(protocol.branches[1].protocol)
      [] protocol.node = "Loop" -> LocalLoop(Silent(protocol.body))

\* some Choice of the protocol has the role as a non-decider that takes part
\* in some of its branches but not in all, or in none of them while they
\* leave it different local types
RECURSIVE MergeFails(_, _)
MergeFails(protocol, role) ==
    CASE protocol.node = "End" -> FALSE
      [] protocol.node = "Send" -> MergeFails(protocol.continuation, role)
      [] protocol.node = "Loop" -> MergeFails(protocol.body, role)
      [] protocol.node = "Choice" ->
            LET branches == protocol.branches
                absent == AbsentFrom(protocol, role)
            IN  \/ \E i \in DOMAIN branches : MergeFails(branches[i].protocol, role)
                \/ /\ role # protocol.decider
                   /\ absent # {}
                   /\ \/ absent # DOMAIN branches
                      \/ \E i, j \in absent :
                            Silent(branches[i].protocol) # Silent(branches[j].protocol)

ActionOf(step, role) ==
    IF role = step.from THEN <<[action |-> "Send", peer |-> step.to, message |-> step.message]>>
    ELSE IF role = step.to
    THEN <<[action |-> "Receive", peer |-> step.from, message |-> step.message]>>
    ELSE <<>>

\* the actions a role has in the leading Send steps of a protocol, in order
RECURSIVE LeadingActions(_, _)
LeadingActions(protocol, role) ==
    IF protocol.node # "Send" THEN <<>>
    ELSE ActionOf(protocol, role) \o LeadingActions(protocol.continuation, role)

\* the local type that does these actions and then goes on as rest
RECURSIVE Prefixed(_, _)
Prefixed(actions, rest) ==
    IF actions = <<>> THEN rest
    ELSE LET a == Head(actions)
         IN  IF a.action = "Send"
             THEN LocalSend(a.peer, a.message, Prefixed(Tail(actions), rest))
             ELSE LocalReceive(a.peer, a.message, Prefixed(Tail(actions), rest))

\* C16: projection of a Send step is role-directed.  Whenever the protocol
\* after its leading Send steps projects to a local type, the projection of
\* the whole is that local type preceded, in order, by Send(to, message) for
\* each step the role sends, Receive(from, message) for each step it
\* receives, and nothing for the steps that do not name it.  For the single
\* step Alice -> Bob: Msg, Alice gets Send(Bob, Msg); End and Bob gets
\* Receive(Alice, Msg); End.
C16_SendIsRoleDirected ==
    ProjectedDeclared
    => LET protocol == ret.arg.protocol
           role == ret.arg.target_role
           rest == project(TailOf(protocol), role)
       IN  /\ IsOk(rest)
              => ret.result = Projected(Prefixed(LeadingActions(protocol, role),
                                                 rest.local_type))
           /\ \A message \in Messages :
                 protocol = Send("Alice", "Bob", message, End)
                 => /\ role = "Alice"
                       => ret.result = Projected(LocalSend("Bob", message, LocalEnd))
                    /\ role = "Bob"
                       => ret.result = Projected(LocalReceive("Alice", message, LocalEnd))
                    /\ role = "Charlie" => ret.result = Projected(LocalEnd)

\* Bob, in a protocol of two steps of which he receives the first and is not
\* named in the second
C16_Witness ==
    /\ ProjectedFor(Send("Alice", "Bob", "Message1",
                         Send("Alice", "Charlie", "Message2", End)), "Bob")
    /\ ret.result = Projected(LocalReceive("Alice", "Message1", LocalEnd))

\* the extensions that can be registered under the id of this one
Rivals(extension) ==
    {e \in Extensions : e.extension_id = extension.extension_id /\ e # extension}

\* the output of compose_grammar is the base text and then, once each, the
\* rule text of the extensions now in the registry; no text of an extension
\* that was replaced under its id is in it
EmitsRegisteredOnly(base, out) ==
    /\ \E order \in Orders(DOMAIN grammar_extensions) :
          out = base \o EmittedAll(grammar_extensions, order)
    /\ \A e \in RegisteredExtensions : \A rival \in Rivals(e) :
          ~Contains(out, Emitted(rival))

\* C17: registering an extension under an id that is already registered
\* replaces the earlier one.  Right after register_extension (or
\* with_extension) the registry holds the extension just registered under its
\* id and compose_grammar would emit its rule text and not that of the one it
\* replaced; extension_count returns the number of distinct ids registered so
\* far; and compose_grammar emits one rule text for each registered id.
C17_LastRegistrationWins ==
    /\ ret.op \in {"register_extension", "with_extension"}
       => /\ ret.arg.extension_id \in DOMAIN grammar_extensions
          /\ grammar_extensions[ret.arg.extension_id] = ret.arg
          /\ extension_count = Cardinality(Range(registered))
          /\ EmitsRegisteredOnly(BasicRule, compose_grammar(BasicRule))
    /\ ret.op = "extension_count" => ret.result = Cardinality(Range(registered))
    /\ ret.op = "compose_grammar" => EmitsRegisteredOnly(ret.arg, ret.result)

\* x_ext was registered with x_stmt and has just been registered again with
\* z_stmt
C17_Witness ==
    /\ ret.op = "register_extension"
    /\ ret.arg = ZBlockExtension
    /\ XStmt \in DOMAIN rule_to_parser
    /\ grammar_extensions["x_ext"] = ZBlockExtension
    /\ extension_count = 1
    /\ Contains(compose_grammar(BasicRule), Emitted(ZBlockExtension))
    /\ ~Contains(compose_grammar(BasicRule), Emitted(XBlockExtension))

=============================================================================
